---- MODULE Spec2Model ----
(***************************************************************************)
(* Model of streamlit_app.py: the question-generation pipeline             *)
(* (generate_questions: prompt, streamed accumulation, json.loads, item    *)
(* validation) and the Streamlit session around it (Generate, Know,        *)
(* Don't Know, Reset Quiz, page rendering).                                *)
(*                                                                         *)
(* Text is a sequence of lexemes (tokens).  A chunk of the stream carries  *)
(* a sub-sequence of the backend's text; json.loads is a recursive-descent *)
(* parser over the accumulated sequence.                                   *)
(*                                                                         *)
(* The script runs one interaction at a time: the buttons act only while   *)
(* no request is in flight.  An exception raised while the stream is       *)
(* consumed, by generate_content, by the iteration or by chunk.text, is    *)
(* the one except branch of the streaming try (StreamError).               *)
(***************************************************************************)
EXTENDS Integers, Sequences, FiniteSets, TLC

\* ------------------------------------------------------------------ bounds
MaxItems == 2          \* longest JSON array the backend answers with
MaxChunks == 3         \* most chunks the backend cuts one answer into
RecursionLimit == 3    \* nesting depth at which json.loads raises RecursionError
MaxNum == 9            \* largest number literal in a text

\* ------------------------------------------------------- program constants
DefaultDifficulty == 5
DefaultNQ == 5
MinDifficulty == 1
MaxDifficulty == 10
MinNQ == 1
MaxNQ == 20

\* ------------------------------------------------------------------ lexemes
P(c) == [k |-> "punct", v |-> c]
S(s) == [k |-> "str", v |-> s]
N(n) == [k |-> "num", v |-> ToString(n)]
Kw(w) == [k |-> "kw", v |-> w]
Ws == [k |-> "ws", v |-> " "]
Junk == [k |-> "junk", v |-> "Here"]
W(w) == [k |-> "word", v |-> w]
Ch(c) == [k |-> "ch", v |-> c]

\* ------------------------------------------------ Python values of json.loads
Str(s) == [t |-> "str", s |-> s]
Num(n) == [t |-> "num", n |-> n]
Null == [t |-> "null"]
List(xs) == [t |-> "list", xs |-> xs]
Dict(kv) == [t |-> "dict", kv |-> kv]

IsDict(x) == x.t = "dict"
IsList(x) == x.t = "list"

\* key in d  (d a dict: a sequence of <<key, value>> in insertion order)
HasKey(d, key) == \E i \in 1..Len(d.kv) : d.kv[i][1] = key

\* d[key]
Get(d, key) == d.kv[CHOOSE i \in 1..Len(d.kv) : d.kv[i][1] = key][2]

\* d[key] = val : a repeated key keeps its place and takes the last value
DictSet(kv, key, val) ==
    IF \E i \in 1..Len(kv) : kv[i][1] = key
    THEN [i \in 1..Len(kv) |-> IF kv[i][1] = key THEN <<key, val>> ELSE kv[i]]
    ELSE Append(kv, <<key, val>>)

\* --------------------------------------------------- serialisation (backend)
RECURSIVE JsonDumps(_, _)
RECURSIVE DumpElems(_, _, _)
RECURSIVE DumpMembers(_, _, _)

Sep(c, sp) == IF sp THEN <<P(c), Ws>> ELSE <<P(c)>>

DumpElems(xs, i, sp) ==
    IF i > Len(xs) THEN <<>>
    ELSE (IF i > 1 THEN Sep(",", sp) ELSE <<>>)
         \o JsonDumps(xs[i], sp) \o DumpElems(xs, i + 1, sp)

DumpMembers(kv, i, sp) ==
    IF i > Len(kv) THEN <<>>
    ELSE (IF i > 1 THEN Sep(",", sp) ELSE <<>>)
         \o <<S(kv[i][1])>> \o Sep(":", sp) \o JsonDumps(kv[i][2], sp)
         \o DumpMembers(kv, i + 1, sp)

\* the JSON text of value x, with (sp) or without blanks after separators
JsonDumps(x, sp) ==
    CASE x.t = "str" -> <<S(x.s)>>
      [] x.t = "num" -> <<N(x.n)>>
      [] x.t = "null" -> <<Kw("null")>>
      [] x.t = "list" -> <<P("[")>> \o DumpElems(x.xs, 1, sp) \o <<P("]")>>
      [] x.t = "dict" -> <<P("{")>> \o DumpMembers(x.kv, 1, sp) \o <<P("}")>>

\* ------------------------------------------------------- json.loads (parser)
ParseInt(v) == CHOOSE n \in 0..MaxNum : ToString(n) = v

Fail(e) == [err |-> e, val |-> Null, next |-> 0]
Ok(x, n) == [err |-> "none", val |-> x, next |-> n]

RECURSIVE SkipWs(_, _)
SkipWs(toks, i) ==
    IF i <= Len(toks) /\ toks[i] = Ws THEN SkipWs(toks, i + 1) ELSE i

\* F applied to the value of v
Bind(v, F(_)) == CHOOSE y \in {F(x) : x \in {v}} : TRUE

RECURSIVE ParseValue(_, _, _)
RECURSIVE ParseElems(_, _, _, _)
RECURSIVE ParseMembers(_, _, _, _)

\* elements of an array after an opening bracket or a comma; acc holds the
\* elements read so far
ParseElems(toks, i, depth, acc) ==
    Bind(ParseValue(toks, i, depth), LAMBDA r :
      IF r.err # "none" THEN r
      ELSE Bind(SkipWs(toks, r.next), LAMBDA j :
             IF j > Len(toks) THEN Fail("decode")
             ELSE IF toks[j] = P(",")
                  THEN Bind(Append(acc, r.val), LAMBDA xs :
                         ParseElems(toks, j + 1, depth, xs))
             ELSE IF toks[j] = P("]") THEN Ok(List(Append(acc, r.val)), j + 1)
             ELSE Fail("decode")))

\* members of an object after an opening brace or a comma; acc holds the
\* pairs read so far
ParseMembers(toks, i, depth, acc) ==
    Bind(SkipWs(toks, i), LAMBDA j :
      IF j > Len(toks) \/ toks[j].k # "str" THEN Fail("decode")
      ELSE Bind(SkipWs(toks, j + 1), LAMBDA c :
             IF c > Len(toks) \/ toks[c] # P(":") THEN Fail("decode")
             ELSE Bind(ParseValue(toks, c + 1, depth), LAMBDA r :
                    IF r.err # "none" THEN r
                    ELSE Bind(SkipWs(toks, r.next), LAMBDA e :
                           IF e > Len(toks) THEN Fail("decode")
                           ELSE Bind(DictSet(acc, toks[j].v, r.val), LAMBDA kv :
                                  IF toks[e] = P(",")
                                  THEN ParseMembers(toks, e + 1, depth, kv)
                                  ELSE IF toks[e] = P("}") THEN Ok(Dict(kv), e + 1)
                                  ELSE Fail("decode"))))))

\* one JSON value starting at toks[i0], depth containers already open
ParseValue(toks, i0, depth) ==
    Bind(SkipWs(toks, i0), LAMBDA i :
      IF i > Len(toks) THEN Fail("decode")
      ELSE Bind(toks[i], LAMBDA tk :
             CASE tk.k = "str" -> Ok(Str(tk.v), i + 1)
               [] tk.k = "num" -> Ok(Num(ParseInt(tk.v)), i + 1)
               [] tk = Kw("null") -> Ok(Null, i + 1)
               [] tk = P("[") ->
                    IF depth >= RecursionLimit THEN Fail("recursion")
                    ELSE Bind(SkipWs(toks, i + 1), LAMBDA j :
                           IF j <= Len(toks) /\ toks[j] = P("]")
                           THEN Ok(List(<<>>), j + 1)
                           ELSE ParseElems(toks, j, depth + 1, <<>>))
               [] tk = P("{") ->
                    IF depth >= RecursionLimit THEN Fail("recursion")
                    ELSE Bind(SkipWs(toks, i + 1), LAMBDA j :
                           IF j <= Len(toks) /\ toks[j] = P("}")
                           THEN Ok(Dict(<<>>), j + 1)
                           ELSE ParseMembers(toks, j, depth + 1, <<>>))
               [] OTHER -> Fail("decode")))

\* json.loads(text): one value, blanks around it, nothing after it
JsonLoads(text) ==
    Bind(ParseValue(text, 1, 0), LAMBDA r :
      IF r.err # "none" THEN r
      ELSE IF SkipWs(text, r.next) <= Len(text) THEN Fail("decode")
      ELSE r)

\* ------------------------------------------------------------ user inputs
DefaultTopic == <<Ch("P")>>
\* what the user may have in the three widgets when clicking Generate
Inputs ==
    {[topic |-> <<>>, difficulty |-> DefaultDifficulty, n |-> DefaultNQ],
     [topic |-> <<Ch(" ")>>, difficulty |-> MinDifficulty, n |-> MaxNQ],
     [topic |-> DefaultTopic, difficulty |-> DefaultDifficulty, n |-> DefaultNQ],
     [topic |-> <<Ch(" "), Ch("C"), Ch(" ")>>, difficulty |-> MaxDifficulty, n |-> MinNQ]}

RECURSIVE LStrip(_)
LStrip(s) == IF s # <<>> /\ Head(s) = Ch(" ") THEN LStrip(Tail(s)) ELSE s

RECURSIVE RStrip(_)
RStrip(s) ==
    IF s # <<>> /\ s[Len(s)] = Ch(" ") THEN RStrip(SubSeq(s, 1, Len(s) - 1)) ELSE s

\* str.strip()
Strip(s) == RStrip(LStrip(s))

\* ---------------------------------------------------- generate_questions
BuildPrompt(t, d, n) ==
    <<W("Generate"), N(n), W("quiz questions on the topic")>> \o t
    \o <<W("at difficulty level"), N(d), W("/10."),
         W("Respond ONLY with a valid JSON array format")>>

\* a chunk of the stream: chunk.text is None (has_text false) or a string
NoneChunk == [has_text |-> FALSE, text |-> <<>>]
TextChunk(txt) == [has_text |-> TRUE, text |-> txt]

\* Accumulate with the operands of += swapped
AccumulatePrepend(full, chunk) ==
    IF chunk.has_text /\ chunk.text # <<>> THEN chunk.text \o full ELSE full

\* if chunk.text: full_response += chunk.text
Accumulate(full, chunk) ==
    IF chunk.has_text /\ chunk.text # <<>> THEN full \o chunk.text ELSE full

\* one st.error / st.warning call
Msg(level, kind, text, detail) ==
    [level |-> level, kind |-> kind, text |-> text, detail |-> detail]

\* OnApiError that returns what the partial text parses to instead of []
OnApiErrorSalvage(full, prompt, e) ==
    LET r == JsonLoads(full) IN
    [ret |-> IF r.err = "none" /\ IsList(r.val) THEN r.val.xs ELSE <<>>,
     log |-> <<Msg("error", "ApiError", <<>>, Str(e.msg)),
               Msg("error", "Prompt", prompt, Null)>>
             \o (IF full # <<>>
                 THEN <<Msg("warning", "Partial", full, Null)>>
                 ELSE <<>>)]

\* the except branch of the streaming try: report, return []
OnApiError(full, prompt, e) ==
    [ret |-> <<>>,
     log |-> <<Msg("error", "ApiError", <<>>, Str(e.msg)),
               Msg("error", "Prompt", prompt, Null)>>
             \o (IF e.has_feedback
                 THEN <<Msg("error", "PromptFeedback", <<>>, Str("feedback"))>>
                 ELSE <<>>)
             \o (IF full # <<>>
                 THEN <<Msg("warning", "Partial", full, Null)>>
                 ELSE <<>>)]

\* isinstance(item, dict) and "question" in item and "answer" in item
ItemOk(item) == IsDict(item) /\ HasKey(item, "question") /\ HasKey(item, "answer")

\* index of the first element the loop rejects, 0 when it rejects none
FirstBad(xs) ==
    IF \A i \in 1..Len(xs) : ItemOk(xs[i]) THEN 0
    ELSE CHOOSE i \in 1..Len(xs) :
           ~ItemOk(xs[i]) /\ \A j \in 1..(i - 1) : ItemOk(xs[j])

TypeName(x) ==
    CASE x.t = "dict" -> "dict" [] x.t = "str" -> "str"
      [] x.t = "num" -> "int" [] x.t = "null" -> "NoneType" [] OTHER -> "list"

Unset == [t |-> "unset"]

RECURSIVE KeepOk(_)
KeepOk(xs) ==
    IF xs = <<>> THEN <<>>
    ELSE (IF ItemOk(Head(xs)) THEN <<Head(xs)>> ELSE <<>>) \o KeepOk(Tail(xs))

\* the outcomes of Validate when json.loads raises or the value is no list
ValidateHead(full, r) ==
    IF r.err = "decode"
    THEN [ret |-> <<>>, outcome |-> "Failed", questions |-> Unset,
          log |-> <<Msg("error", "MalformedJSON", full, Null)>>]
    ELSE IF r.err # "none"
    THEN [ret |-> <<>>, outcome |-> "Failed", questions |-> Unset,
          log |-> <<Msg("error", "Unexpected", full, Str(r.err))>>]
    ELSE [ret |-> <<>>, outcome |-> "Failed", questions |-> r.val,
          log |-> <<Msg("error", "UnexpectedShape", full, Str(TypeName(r.val)))>>]

\* Validate that drops the rejected elements and returns the rest
ValidateKeepsValid(full) ==
    LET r == JsonLoads(full) IN
    IF r.err # "none" \/ ~IsList(r.val) THEN ValidateHead(full, r)
    ELSE [ret |-> KeepOk(r.val.xs), outcome |-> "Success", questions |-> r.val,
          log |-> <<>>]

\* Validate that cuts the returned list to the smallest count one may ask for
ValidateCapped(full) ==
    LET r == JsonLoads(full) IN
    IF r.err # "none" \/ ~IsList(r.val) THEN ValidateHead(full, r)
    ELSE IF FirstBad(r.val.xs) # 0
    THEN [ret |-> <<>>, outcome |-> "Failed", questions |-> r.val,
          log |-> <<Msg("error", "InvalidItem", full, r.val.xs[FirstBad(r.val.xs)])>>]
    ELSE [ret |-> SubSeq(r.val.xs, 1, IF Len(r.val.xs) < MinNQ THEN Len(r.val.xs) ELSE MinNQ),
          outcome |-> "Success", questions |-> r.val, log |-> <<>>]

\* Validate whose item loop returns [] without reporting
ValidateSilent(full) ==
    LET r == JsonLoads(full) IN
    IF r.err # "none" \/ ~IsList(r.val) THEN ValidateHead(full, r)
    ELSE IF FirstBad(r.val.xs) # 0
    THEN [ret |-> <<>>, outcome |-> "Failed", questions |-> r.val, log |-> <<>>]
    ELSE [ret |-> r.val.xs, outcome |-> "Success", questions |-> r.val, log |-> <<>>]

\* Validate that reports an empty array as an error
ValidateRejectsEmpty(full) ==
    LET r == JsonLoads(full) IN
    IF r.err # "none" \/ ~IsList(r.val) THEN ValidateHead(full, r)
    ELSE IF FirstBad(r.val.xs) # 0
    THEN [ret |-> <<>>, outcome |-> "Failed", questions |-> r.val,
          log |-> <<Msg("error", "InvalidItem", full, r.val.xs[FirstBad(r.val.xs)])>>]
    ELSE IF r.val.xs = <<>>
    THEN [ret |-> <<>>, outcome |-> "Failed", questions |-> r.val,
          log |-> <<Msg("error", "Empty", full, Null)>>]
    ELSE [ret |-> r.val.xs, outcome |-> "Success", questions |-> r.val, log |-> <<>>]

\* the parsing try: json.loads, the list check, the item loop, return
Validate(full) ==
    Bind(JsonLoads(full), LAMBDA r :
      IF r.err = "decode"
      THEN [ret |-> <<>>, outcome |-> "Failed", questions |-> Unset,
            log |-> <<Msg("error", "MalformedJSON", full, Null)>>]
      ELSE IF r.err # "none"
      THEN [ret |-> <<>>, outcome |-> "Failed", questions |-> Unset,
            log |-> <<Msg("error", "Unexpected", full, Str(r.err))>>]
      ELSE IF ~IsList(r.val)
      THEN [ret |-> <<>>, outcome |-> "Failed", questions |-> r.val,
            log |-> <<Msg("error", "UnexpectedShape", full, Str(TypeName(r.val)))>>]
      ELSE Bind(FirstBad(r.val.xs), LAMBDA b :
             IF b # 0
             THEN [ret |-> <<>>, outcome |-> "Failed", questions |-> r.val,
                   log |-> <<Msg("error", "InvalidItem", full, r.val.xs[b])>>]
             ELSE [ret |-> r.val.xs, outcome |-> "Success", questions |-> r.val,
                   log |-> <<>>]))

\* ------------------------------------------------------------- the page
NoNote == [kind |-> "none", idx |-> 0, body |-> Null]

\* the rendering block under "if st.session_state.quiz_generated"
Render(generated, qs) ==
    IF ~generated THEN [banner |-> "none", count |-> 0, cards |-> <<>>, reset |-> FALSE]
    ELSE IF qs # <<>>
    THEN [banner |-> "success", count |-> Len(qs),
          cards |-> [i \in 1..Len(qs) |->
                       IF ItemOk(qs[i])
                       THEN [kind |-> "expander", title |-> Get(qs[i], "question")]
                       ELSE [kind |-> "warning", title |-> qs[i]]],
          reset |-> TRUE]
    ELSE [banner |-> "error", count |-> 0, cards |-> <<>>, reset |-> FALSE]

Spinner == [banner |-> "spinner", count |-> 0, cards |-> <<>>, reset |-> FALSE]

\* ----------------------------------------------------------- the backend
Q1A1 == Dict(<<<<"question", Str("Q1")>>, <<"answer", Str("A1")>>>>)
Q2A2 == Dict(<<<<"question", Str("Q2")>>, <<"answer", Str("A2")>>>>)
WrongTypes == Dict(<<<<"question", Num(1)>>, <<"answer", Null>>>>)
NoAnswer == Dict(<<<<"question", Str("Q1")>>>>)
NoQuestion == Dict(<<<<"answer", Str("A1")>>>>)
ExtraKey == Dict(<<<<"question", Str("Q1")>>, <<"hint", Str("H")>>, <<"answer", Str("A1")>>>>)
ListValued == Dict(<<<<"question", List(<<Str("Q1")>>)>>, <<"answer", Dict(<<>>)>>>>)
NotDict == Str("Q1")

ItemKinds == <<Q1A1, Q2A2, NoAnswer>>

\* every array of at most MaxItems elements drawn from ItemKinds
Arrays ==
    UNION {{[i \in 1..n |-> ItemKinds[f[i]]] : f \in [1..n -> 1..Len(ItemKinds)]}
           : n \in 0..MaxItems}

RECURSIVE Nested(_)
Nested(d) == IF d = 0 THEN Null ELSE List(<<Nested(d - 1)>>)

OtherTexts ==
    {<<>>,
     <<Junk>> \o JsonDumps(List(<<Q1A1>>), FALSE),
     JsonDumps(List(<<Q1A1>>), FALSE) \o <<P("]")>>,
     <<P("["), P("{"), S("question"), P(":"), S("Q1"), P(","), S("answer"),
       P(":"), S("A1"), P("}"), P(","), P("]")>>,
     <<P("["), P("{"), S("question"), P(":"), S("Q1"), P(","), S("answer"),
       P(":"), S("A1"), P(","), S("answer"), P(":"), S("A2"), P("}"), P("]")>>,
     JsonDumps(List(<<Q1A1, Q2A2>>), TRUE),
     <<Ws, P("["), Ws, P("]"), Ws>>,
     JsonDumps(Q1A1, FALSE),
     JsonDumps(Str("Q1"), FALSE),
     JsonDumps(List(<<NoQuestion>>), FALSE),
     JsonDumps(List(<<NotDict, Q1A1>>), FALSE),
     JsonDumps(List(<<Q1A1, Null>>), FALSE),
     JsonDumps(List(<<WrongTypes>>), FALSE),
     JsonDumps(List(<<Q2A2, WrongTypes>>), FALSE),
     JsonDumps(List(<<ExtraKey, Q2A2>>), FALSE),
     JsonDumps(List(<<ListValued>>), FALSE),
     JsonDumps(Nested(RecursionLimit + 1), FALSE)}

\* the texts the backend may answer a request with
Responses == {JsonDumps(List(xs), FALSE) : xs \in Arrays} \cup OtherTexts

\* the exceptions the backend may raise while the stream is consumed
ApiErrors ==
    {[msg |-> "transport", has_feedback |-> FALSE],
     [msg |-> "blocked", has_feedback |-> TRUE]}

\* ------------------------------------------------------------------ state
VARIABLES
    quiz_generated, quiz_questions, topic, difficulty, n_q,   \* st.session_state
    pc,             \* where the latest request is in generate_questions
    prompt_text, full_response, questions,                     \* its locals
    exc,            \* the exception its streaming try caught, if any
    ret,            \* the list it returned
    log,            \* its st.error / st.warning calls
    served,         \* the whole text the backend answers the request with
    pending,        \* the part of it still to be streamed
    nchunks,        \* chunks handed to the loop so far
    page,           \* what the latest script run rendered
    calls,          \* generate_content calls since the latest Generate click
    last            \* the latest user action

vars == <<quiz_generated, quiz_questions, topic, difficulty, n_q, pc, prompt_text,
          full_response, questions, exc, ret, log, served, pending, nchunks, page,
          calls, last>>

session == <<quiz_generated, quiz_questions, topic, difficulty, n_q>>
locals == <<prompt_text, full_response, questions, exc, ret, log>>
stream == <<served, pending, nchunks>>

InFlight == {"Building", "Streaming", "Validating"}
Terminal == {"Success", "Failed"}

Init ==
    /\ quiz_generated = FALSE
    /\ quiz_questions = <<>>
    /\ topic = DefaultTopic
    /\ difficulty = DefaultDifficulty
    /\ n_q = DefaultNQ
    /\ pc = "Idle"
    /\ prompt_text = <<>>
    /\ full_response = <<>>
    /\ questions = Unset
    /\ exc = "none"
    /\ ret = <<>>
    /\ log = <<>>
    /\ served = <<>>
    /\ pending = <<>>
    /\ nchunks = 0
    /\ page = [view |-> Render(FALSE, <<>>), note |-> NoNote]
    /\ calls = 0
    /\ last = "none"

\* Generate clicked with a blank topic: a warning, no request
GenerateBlank(t, d, n) ==
    /\ pc \notin InFlight
    /\ Strip(t) = <<>>
    /\ topic' = t /\ difficulty' = d /\ n_q' = n
    /\ calls' = 0
    /\ last' = "generate"
    /\ page' = [view |-> Render(quiz_generated, quiz_questions),
                note |-> [kind |-> "topic_warning", idx |-> 0, body |-> Null]]
    /\ UNCHANGED <<quiz_generated, quiz_questions, pc, locals, stream>>

\* Generate clicked: generate_questions is entered and builds the prompt
GenerateStart(t, d, n) ==
    /\ pc \notin InFlight
    /\ Strip(t) # <<>>
    /\ topic' = t /\ difficulty' = d /\ n_q' = n
    /\ calls' = 0
    /\ last' = "generate"
    /\ pc' = "Building"
    /\ prompt_text' = BuildPrompt(t, d, n)
    /\ full_response' = <<>>
    /\ questions' = Unset
    /\ exc' = "none"
    /\ ret' = <<>>
    /\ log' = <<>>
    /\ served' = <<>>
    /\ pending' = <<>>
    /\ nchunks' = 0
    /\ page' = [view |-> Spinner, note |-> NoNote]
    /\ UNCHANGED <<quiz_generated, quiz_questions>>

\* model.generate_content(..., stream=True)
IssueRequest ==
    /\ pc = "Building"
    /\ pc' = "Streaming"
    /\ calls' = calls + 1
    /\ \E text \in Responses : served' = text /\ pending' = text
    /\ UNCHANGED <<session, locals, nchunks, page, last>>

\* the chunks the backend may hand over next
NextChunks ==
    IF nchunks + 1 < MaxChunks
    THEN {NoneChunk} \cup {TextChunk(SubSeq(pending, 1, k)) : k \in 0..Len(pending)}
    ELSE {TextChunk(pending)} \cup (IF pending = <<>> THEN {NoneChunk} ELSE {})

\* one turn of "for chunk in response_stream"
RecvChunk ==
    /\ pc = "Streaming"
    /\ nchunks < MaxChunks
    /\ \E chunk \in NextChunks :
         /\ full_response' = Accumulate(full_response, chunk)
         /\ pending' = SubSeq(pending, Len(chunk.text) + 1, Len(pending))
         /\ nchunks' = nchunks + 1
    /\ UNCHANGED <<session, pc, prompt_text, questions, exc, ret, log, served, page,
                   calls, last>>

\* the stream is exhausted: the loop ends, the parsing try is entered
StreamEnd ==
    /\ pc = "Streaming"
    /\ pending = <<>>
    /\ pc' = "Validating"
    /\ UNCHANGED <<session, locals, stream, page, calls, last>>

\* what the handler does with the value generate_questions returned; the
\* stream object is released with the function's frame
Finish(r, outcome) ==
    /\ ret' = r.ret
    /\ quiz_questions' = r.ret
    /\ quiz_generated' = TRUE
    /\ log' = r.log
    /\ pc' = outcome
    /\ page' = [view |-> Render(TRUE, r.ret), note |-> NoNote]
    /\ pending' = <<>>
    /\ nchunks' = 0

\* StreamError without the "return []": control falls into the parsing try
StreamErrorFallsThrough ==
    /\ pc = "Streaming"
    /\ \E e \in ApiErrors :
         /\ exc' = e.msg
         /\ log' = OnApiError(full_response, prompt_text, e).log
    /\ pc' = "Validating"
    /\ UNCHANGED <<session, prompt_text, full_response, questions, ret, stream, page,
                   calls, last>>

\* generate_content or the iteration raises
StreamError ==
    /\ pc = "Streaming"
    /\ \E e \in ApiErrors :
         /\ exc' = e.msg
         /\ \E r \in {OnApiError(full_response, prompt_text, e)} : Finish(r, "Failed")
    /\ UNCHANGED <<topic, difficulty, n_q, prompt_text, full_response, questions,
                   served, calls, last>>

\* json.loads and the checks, then the return to the handler
ValidateStep ==
    /\ pc = "Validating"
    /\ \E r \in {Validate(full_response)} :
         /\ Finish(r, r.outcome)
         /\ questions' = r.questions
    /\ UNCHANGED <<topic, difficulty, n_q, prompt_text, full_response, exc,
                   served, calls, last>>

\* ClickKnow in a script that calls generate_questions on every rerun
ClickKnowRegenerates(idx) ==
    /\ pc \notin InFlight
    /\ idx \in DOMAIN page.view.cards
    /\ page.view.cards[idx].kind = "expander"
    /\ pc' = "Building"
    /\ prompt_text' = BuildPrompt(topic, difficulty, n_q)
    /\ full_response' = <<>>
    /\ questions' = Unset
    /\ exc' = "none"
    /\ ret' = <<>>
    /\ log' = <<>>
    /\ page' = [view |-> Spinner, note |-> NoNote]
    /\ last' = "know"
    /\ UNCHANGED <<session, stream, calls>>

\* the Know button of card idx
ClickKnow(idx) ==
    /\ pc \notin InFlight
    /\ idx \in DOMAIN page.view.cards
    /\ page.view.cards[idx].kind = "expander"
    /\ page' = [view |-> Render(quiz_generated, quiz_questions),
                note |-> [kind |-> "known", idx |-> idx, body |-> Null]]
    /\ last' = "know"
    /\ UNCHANGED <<session, pc, locals, stream, calls>>

\* the Don't Know button of card idx: the answer is shown
ClickDontKnow(idx) ==
    /\ pc \notin InFlight
    /\ idx \in DOMAIN page.view.cards
    /\ page.view.cards[idx].kind = "expander"
    /\ page' = [view |-> Render(quiz_generated, quiz_questions),
                note |-> [kind |-> "answer", idx |-> idx,
                          body |-> Get(quiz_questions[idx], "answer")]]
    /\ last' = "dontknow"
    /\ UNCHANGED <<session, pc, locals, stream, calls>>

\* ClickReset that forgets to clear quiz_generated
ClickResetKeepsFlag ==
    /\ pc \notin InFlight
    /\ page.view.reset
    /\ quiz_questions' = <<>>
    /\ topic' = DefaultTopic
    /\ page' = [view |-> Render(quiz_generated, <<>>), note |-> NoNote]
    /\ last' = "reset"
    /\ UNCHANGED <<quiz_generated, difficulty, n_q, pc, locals, stream, calls>>

\* the Reset Quiz button, and the rerun it asks for
ClickReset ==
    /\ pc \notin InFlight
    /\ page.view.reset
    /\ quiz_generated' = FALSE
    /\ quiz_questions' = <<>>
    /\ topic' = DefaultTopic
    /\ page' = [view |-> Render(FALSE, <<>>), note |-> NoNote]
    /\ last' = "reset"
    /\ UNCHANGED <<difficulty, n_q, pc, locals, stream, calls>>

Step ==
    \/ IssueRequest
    \/ RecvChunk
    \/ StreamEnd
    \/ StreamError
    \/ ValidateStep

Next ==
    \/ \E i \in Inputs : GenerateBlank(i.topic, i.difficulty, i.n)
    \/ \E i \in Inputs : GenerateStart(i.topic, i.difficulty, i.n)
    \/ IssueRequest
    \/ RecvChunk
    \/ StreamEnd
    \/ StreamError
    \/ ValidateStep
    \/ \E idx \in 1..MaxItems : ClickKnow(idx)
    \/ \E idx \in 1..MaxItems : ClickDontKnow(idx)
    \/ ClickReset

Spec == Init /\ [][Next]_vars

\* generate_questions runs to its return once entered
LiveSpec == Spec /\ WF_vars(Step)

\* ------------------------------------------------------------ properties
\* the kind of the failure the latest request reported, "None" when it reported none
Failure == IF log = <<>> THEN "None" ELSE log[1].kind

\* an object with the keys question and answer
WellKeyed(x) ==
    /\ x.t = "dict"
    /\ \E i \in 1..Len(x.kv) : x.kv[i][1] = "question"
    /\ \E i \in 1..Len(x.kv) : x.kv[i][1] = "answer"

\* an object whose question and answer are both strings
WellTyped(x) ==
    /\ WellKeyed(x)
    /\ \A i \in 1..Len(x.kv) : x.kv[i][1] \in {"question", "answer"} => x.kv[i][2].t = "str"

\* the request got its whole stream and went on to parse the text
Parsed == pc \in Terminal /\ exc = "none"

ErrorsIn(l) == {i \in 1..Len(l) : l[i].level = "error"}

TypeOK ==
    /\ quiz_generated \in BOOLEAN
    /\ pc \in {"Idle"} \cup InFlight \cup Terminal
    /\ difficulty \in MinDifficulty..MaxDifficulty
    /\ n_q \in MinNQ..MaxNQ
    /\ calls \in 0..1
    /\ nchunks \in 0..MaxChunks
    /\ last \in {"none", "generate", "know", "dontknow", "reset"}

\* C1: a parsed array with an element that is no object or lacks question or
\* answer makes the request fail with an empty result, wherever that element
\* stands in the array; the valid elements are never returned alone.
C1_NoPartialAcceptance ==
    Parsed =>
        LET r == JsonLoads(full_response) IN
        (r.err = "none" /\ r.val.t = "list"
            /\ \E i \in 1..Len(r.val.xs) : ~WellKeyed(r.val.xs[i]))
        => /\ pc = "Failed"
           /\ ret = <<>>
           /\ page.view.cards = <<>>

C1_Witness ==
    /\ Parsed
    /\ pc = "Failed"
    /\ questions.t = "list"
    /\ Len(questions.xs) = 2
    /\ WellKeyed(questions.xs[1])
    /\ ~WellKeyed(questions.xs[2])

\* the arrays of well-keyed elements the backend may answer with
GoodArrays == {xs \in Arrays : \A i \in 1..Len(xs) : WellKeyed(xs[i])}

\* C2: when the text is the JSON of an array of N valid items, whatever count
\* was asked for, the request succeeds with exactly those N items in the
\* order of the array.
C2_OrderAndLength ==
    Parsed =>
        \A xs \in GoodArrays, sp \in BOOLEAN :
            full_response = JsonDumps(List(xs), sp)
            => /\ pc = "Success"
               /\ Len(ret) = Len(xs)
               /\ \A i \in 1..Len(xs) : ret[i] = xs[i]

C2_Witness ==
    /\ pc = "Success"
    /\ n_q = MinNQ
    /\ Len(ret) = 2
    /\ ret[1] = Q2A2
    /\ ret[2] = Q1A1
    /\ quiz_questions = ret

\* C3: while streaming the buffer followed by the text still to come is the
\* backend's text, so once the stream has ended without error the buffer is
\* the concatenation of the payloads in arrival order, chunks without text
\* skipped, and the result depends on that text alone.
C3_ChunkIndependence ==
    /\ pc = "Streaming" => full_response \o pending = served
    /\ pc = "Validating" => full_response = served
    /\ Parsed => /\ full_response = served
                 /\ ret = Validate(served).ret
                 /\ pc = Validate(served).outcome

C3_Witness ==
    /\ pc = "Validating"
    /\ nchunks = 3
    /\ full_response = <<P("["), P("]")>>

\* C4: a request whose stream raised fails with an empty result; the text
\* received before the error is neither parsed nor returned, it only appears
\* in a warning.
C4_StreamErrorFails ==
    (pc \in Terminal /\ exc # "none") =>
        /\ pc = "Failed"
        /\ ret = <<>>
        /\ quiz_questions = <<>>
        /\ questions = Unset
        /\ page.view.cards = <<>>
        /\ ErrorsIn(log) # {}
        /\ \A i \in 1..Len(log) :
             log[i].text = full_response /\ full_response # <<>>
             => log[i].level = "warning"
        /\ full_response # <<>> =>
             \E i \in 1..Len(log) : log[i].kind = "Partial" /\ log[i].text = full_response

C4_Witness ==
    /\ pc = "Failed"
    /\ exc = "transport"
    /\ full_response = JsonDumps(List(<<Q1A1, Q2A2>>), FALSE)

\* C5: a failed request returns no question and has reported at least one
\* error; when the failure is in parsing or validation (malformed JSON, a
\* value that is no array, a bad element, another exception) the error
\* carries the accumulated text unchanged and names the defect.
C5_NoSilentFailure ==
    pc = "Failed" =>
        /\ ret = <<>>
        /\ quiz_questions = <<>>
        /\ ErrorsIn(log) # {}
        /\ exc = "none" =>
             LET r == JsonLoads(full_response)
                 kind == IF r.err = "decode" THEN "MalformedJSON"
                         ELSE IF r.err # "none" THEN "Unexpected"
                         ELSE IF r.val.t # "list" THEN "UnexpectedShape"
                         ELSE "InvalidItem"
             IN \E i \in ErrorsIn(log) :
                    log[i].kind = kind /\ log[i].text = full_response

C5_Witness ==
    /\ pc = "Failed"
    /\ Failure = "InvalidItem"
    /\ full_response = JsonDumps(List(<<Q1A1, NoAnswer>>), FALSE)

\* C6: every item of a successful result is an object whose question and
\* answer are both strings.
C6_ItemsAreStringPairs ==
    pc = "Success" => \A i \in 1..Len(ret) : WellTyped(ret[i])

\* the texts that are an empty JSON array
EmptyArrayTexts == {<<P("["), P("]")>>, <<Ws, P("["), Ws, P("]"), Ws>>}

\* C7 as stated: the text [] ends in Success with an empty list and no
\* failure diagnostic at all, the page's included.
C7_EmptyArrayNoDiagnostic ==
    (Parsed /\ full_response \in EmptyArrayTexts) =>
        /\ pc = "Success"
        /\ ret = <<>>
        /\ quiz_questions = <<>>
        /\ log = <<>>
        /\ page.view.banner # "error"

\* C7: the text [] makes generate_questions return an empty list without
\* reporting anything; the page then shows the "No questions were generated"
\* error it shows for every empty result.
C7_EmptyArrayReturnsEmpty ==
    (Parsed /\ full_response \in EmptyArrayTexts) =>
        /\ pc = "Success"
        /\ ret = <<>>
        /\ quiz_questions = <<>>
        /\ log = <<>>
        /\ page.view.banner = "error"

C7_Witness ==
    /\ Parsed
    /\ full_response = <<P("["), P("]")>>
    /\ quiz_generated

\* the moves of pc
PipelineMoves ==
    {<<"Idle", "Building">>, <<"Building", "Streaming">>,
     <<"Streaming", "Validating">>, <<"Streaming", "Failed">>,
     <<"Validating", "Success">>, <<"Validating", "Failed">>,
     <<"Success", "Building">>, <<"Failed", "Building">>}

PipelineStep ==
    /\ pc' # pc => <<pc, pc'>> \in PipelineMoves
    /\ (pc' = "Validating" /\ pc # "Validating")
         => pending = <<>> /\ exc' = "none" /\ log' = <<>> /\ full_response' = served
    /\ (pc \in Terminal /\ pc' # pc)
         => /\ \E i \in Inputs : GenerateStart(i.topic, i.difficulty, i.n)
            /\ full_response' = <<>> /\ log' = <<>> /\ exc' = "none"
            /\ questions' = Unset /\ ret' = <<>>
    /\ pc' = "Success" => exc' = "none" /\ log' = <<>>
    /\ pc' = "Failed" => log' # <<>>

\* C8: a request goes Building, Streaming, Validating and ends in Success or
\* in Failed, never backwards; Validating is entered only from a stream that
\* ended without error; an outcome stays until a click starts a new request
\* with fresh state; every request that was started ends.
C8_PipelineStateMachine ==
    /\ [][PipelineStep]_vars
    /\ (pc \in InFlight) ~> (pc \in Terminal)

C8_Witness ==
    /\ pc = "Validating"
    /\ quiz_generated
    /\ quiz_questions = <<Q1A1>>
    /\ full_response = <<Junk>> \o JsonDumps(List(<<Q1A1>>), FALSE)

\* a step that is a click of Generate
GenerateClick ==
    \E i \in Inputs : \/ GenerateBlank(i.topic, i.difficulty, i.n)
                      \/ GenerateStart(i.topic, i.difficulty, i.n)

RetryStep ==
    /\ calls' <= 1
    /\ calls' > calls => pc = "Building" /\ pc' = "Streaming"
    /\ (pc' = "Building" /\ pc # "Building") => GenerateClick /\ calls' = 0
    /\ (pc = "Failed" /\ ~GenerateClick) => pc' = "Failed" /\ calls' = calls

\* C9: the backend is called at most once after a Generate click, a request
\* is started only by a Generate click, and a failed request stays failed,
\* with no further backend call, until the next Generate click.
C9_NoAutomaticRetry == [][RetryStep]_vars

C9_Witness ==
    /\ pc = "Failed"
    /\ calls = 0
    /\ page.note.kind = "topic_warning"
    /\ page.view.banner = "error"

\* C10: right after Reset Quiz the session holds no result and the page
\* shows none.
C10_ResetClears ==
    last = "reset" =>
        /\ quiz_generated = FALSE
        /\ quiz_questions = <<>>
        /\ page.view.banner = "none"
        /\ page.view.cards = <<>>
        /\ page.note = NoNote

C10_Witness ==
    /\ last = "reset"
    /\ pc = "Success"
    /\ Len(ret) = 2

====
